---- MODULE Spec2Model ----
(***************************************************************************)
(* Model of the pf backend of the firewall bouncer (src/pf.go): the two    *)
(* family contexts, the lifecycle operations Init / Add / Delete /         *)
(* ShutDown, and the pfctl invocations they issue.                         *)
(*                                                                         *)
(* Strings the code inspects (table names, pfctl output, decision values,  *)
(* durations) are sequences of one-character strings, so that              *)
(* strings.Contains and time.ParseDuration are computed, not assumed.      *)
(***************************************************************************)
EXTENDS Integers, Sequences, FiniteSets, TLC

\* Bound on the number of lifecycle calls made on one backend.
MaxCalls == 2

---------------------------------------------------------------------------
\* String helpers

\* strings.Contains(s, sub)
Contains(s, sub) ==
    \E i \in 0..(Len(s) - Len(sub)) : SubSeq(s, i + 1, i + Len(sub)) = sub

Digits == {"0", "1", "2", "3", "4", "5", "6", "7", "8", "9"}

\* the keys of time.unitMap
unitMap ==
    { <<"n", "s">>, <<"u", "s">>, <<"µ", "s">>, <<"μ", "s">>, <<"m", "s">>,
      <<"s">>, <<"m">>, <<"h">> }

Tail0(s, n) == SubSeq(s, n + 1, Len(s))

\* number of leading characters of s that satisfy "is a digit"
RECURSIVE leadingInt(_)
leadingInt(s) ==
    IF s # <<>> /\ Head(s) \in Digits THEN 1 + leadingInt(Tail(s)) ELSE 0

\* number of leading characters of s that are neither '.' nor a digit
RECURSIVE unitLen(_)
unitLen(s) ==
    IF s # <<>> /\ Head(s) # "." /\ Head(s) \notin Digits
    THEN 1 + unitLen(Tail(s)) ELSE 0

\* the loop of time.ParseDuration over ([0-9]*(\.[0-9]*)?[a-z]+)+ ;
\* TRUE iff the remaining text parses
RECURSIVE parseGroups(_)
parseGroups(s) ==
    IF s = <<>> THEN TRUE
    ELSE IF ~(Head(s) = "." \/ Head(s) \in Digits) THEN FALSE
    ELSE LET pre   == leadingInt(s)
             s1    == Tail0(s, pre)
             dot   == s1 # <<>> /\ Head(s1) = "."
             s2    == IF dot THEN Tail(s1) ELSE s1
             post  == IF dot THEN leadingInt(s2) ELSE 0
             s3    == Tail0(s2, post)
             i     == unitLen(s3)
         IN  IF pre = 0 /\ post = 0 THEN FALSE
             ELSE IF i = 0 THEN FALSE
             ELSE IF SubSeq(s3, 1, i) \notin unitMap THEN FALSE
             ELSE parseGroups(Tail0(s3, i))

\* time.ParseDuration(s): only the error result is modelled, the parsed
\* value is used for a debug log line and nothing else.
\* TRUE iff err == nil
ParseDuration(s) ==
    LET t == IF s # <<>> /\ Head(s) \in {"-", "+"} THEN Tail(s) ELSE s
    IN  IF t = <<"0">> THEN TRUE
        ELSE IF t = <<>> THEN FALSE
        ELSE parseGroups(t)

---------------------------------------------------------------------------
\* Program constants and the inputs the model draws from

\* "crowdsec-blacklists"
inetTable ==
    <<"c","r","o","w","d","s","e","c","-","b","l","a","c","k","l","i","s","t","s">>

\* "crowdsec6-blacklists"
inet6Table ==
    <<"c","r","o","w","d","s","e","c","6","-","b","l","a","c","k","l","i","s","t","s">>

\* a table of the host that is neither of the two: "my-crowdsec-blacklists-old"
otherTable ==
    <<"m","y","-">> \o inetTable \o <<"-","o","l","d">>

\* tables that may exist in the packet filter of the host
TablePool == <<inetTable, inet6Table, otherTable>>

\* "203.0.113.7"
Value4 == <<"2","0","3",".","0",".","1","1","3",".","7">>
\* "2001:db8::1"
Value6 == <<"2","0","0","1",":","d","b","8",":",":","1">>
Values == {Value4, Value6}

\* "4h", "not-a-duration"
Durations ==
    { <<"4","h">>,
      <<"n","o","t","-","a","-","d","u","r","a","t","i","o","n">> }

Decisions ==
    [Value : Values, Duration : Durations, Scenario : {"bruteforce"}]

\* the method set of the Backend interface
Backend == {"Init", "ShutDown", "Add", "Delete", "Commit", "CollectMetrics"}

\* the methods declared on *pf
pfMethods == {"Init", "Add", "Delete", "ShutDown"}

\* exit statuses of an external invocation
ExitCodes == {0, 1}

---------------------------------------------------------------------------
\* Values of the program

\* a nil *pfContext
Nil == [proto |-> "", table |-> <<>>]

\* a nil error
NoErr == [err |-> FALSE, msg |-> <<>>, arg |-> <<>>]

\* an error value: the chain of format strings that built its text (outermost
\* first) and the table or address the text carries
Error(msg, arg) == [err |-> TRUE, msg |-> msg, arg |-> arg]

\* one run of pfctl: what it was asked to do and its exit status
Invocation(cmd, table, addr, exit) ==
    [cmd |-> cmd, table |-> table, addr |-> addr, exit |-> exit]

NoDecision == [Value |-> <<>>, Duration |-> <<>>, Scenario |-> ""]

\* the text "pfctl -s Tables" prints: one line per existing table
RECURSIVE TablesOutput(_, _)
TablesOutput(existing, i) ==
    IF i > Len(TablePool) THEN <<>>
    ELSE (IF TablePool[i] \in existing THEN TablePool[i] \o <<"\n">> ELSE <<>>)
         \o TablesOutput(existing, i + 1)

\* what an invocation does to the tables of the packet filter: a run that
\* exits 0 has carried out its command, a run that exits non-zero has not
pfctl(m, inv) ==
    IF inv.exit # 0 THEN m
    ELSE IF inv.cmd = "flush"  THEN [m EXCEPT ![inv.table] = {}]
    ELSE IF inv.cmd = "add"    THEN [m EXCEPT ![inv.table] = @ \cup {inv.addr}]
    ELSE IF inv.cmd = "delete" THEN [m EXCEPT ![inv.table] = @ \ {inv.addr}]
    ELSE m

RECURSIVE pfctlAll(_, _)
pfctlAll(m, invs) ==
    IF invs = <<>> THEN m ELSE pfctlAll(pfctl(m, Head(invs)), Tail(invs))

---------------------------------------------------------------------------
\* The code of src/pf.go.  Every operation yields its return value (ret) and
\* the invocations it issued, in order (inv).  The exit statuses and the
\* output of the invocations are inputs.

\* newPF that builds the inet6 context whatever the configuration says
newPF_AlwaysInet6(config) ==
    [inet  |-> [proto |-> "inet",  table |-> inetTable],
     inet6 |-> [proto |-> "inet6", table |-> inet6Table]]

\* newPF with the test of DisableIPV6 inverted
newPF_Inverted(config) ==
    LET inetCtx  == [proto |-> "inet",  table |-> inetTable]
        inet6Ctx == [proto |-> "inet6", table |-> inet6Table]
    IN  IF ~config.DisableIPV6
        THEN [inet |-> inetCtx, inet6 |-> Nil]
        ELSE [inet |-> inetCtx, inet6 |-> inet6Ctx]

\* a nil types.Backend
NilBackend == "nil"

\* NewNFTables that reports the missing support as an error
NewNFTables_Unsupported(config) ==
    [backend |-> NilBackend,
     err |-> Error(<<"nftables is not supported on this platform">>, <<>>)]

\* the !linux build of the nftables factory
NewNFTables(config) == [backend |-> NilBackend, err |-> NoErr]

\* the !linux build of the iptables factory
NewIPTables(config) == [backend |-> NilBackend, err |-> NoErr]

newPF(config) ==
    LET inetCtx  == [proto |-> "inet",  table |-> inetTable]
        inet6Ctx == [proto |-> "inet6", table |-> inet6Table]
    IN  IF config.DisableIPV6
        THEN [inet |-> inetCtx, inet6 |-> Nil]
        ELSE [inet |-> inetCtx, inet6 |-> inet6Ctx]

\* checkTable that looks at the exit status only
checkTable_IgnoreOutput(ctx, exit, out) ==
    LET inv == <<Invocation("tables", <<>>, <<>>, exit)>>
    IN  IF exit # 0
        THEN [ret |-> Error(<<"pfctl error : %v - %s">>, <<>>), inv |-> inv]
        ELSE [ret |-> NoErr, inv |-> inv]

checkTable(ctx, exit, out) ==
    LET inv == <<Invocation("tables", <<>>, <<>>, exit)>>
    IN  IF exit # 0
        THEN [ret |-> Error(<<"pfctl error : %v - %s">>, <<>>), inv |-> inv]
        ELSE IF ~Contains(out, ctx.table)
        THEN [ret |-> Error(<<"table %s doesn't exist">>, ctx.table), inv |-> inv]
        ELSE [ret |-> NoErr, inv |-> inv]

\* shutDown that returns the failure of the flush to its caller
shutDown_Strict(ctx, exit) ==
    [ret |-> IF exit # 0
             THEN Error(<<"Error while flushing table (%s)">>, ctx.table)
             ELSE NoErr,
     inv |-> <<Invocation("flush", ctx.table, <<>>, exit)>>]

shutDown(ctx, exit) ==
    [ret |-> NoErr, inv |-> <<Invocation("flush", ctx.table, <<>>, exit)>>]

\* pfContext.Add that runs pfctl a second time when the first run fails
pfContext_Add_Retry(ctx, decision, exit) ==
    IF ~ParseDuration(decision.Duration)
    THEN [ret |-> Error(<<"time: invalid duration">>, decision.Duration),
          inv |-> <<>>]
    ELSE [ret |-> NoErr,
          inv |-> IF exit # 0
                  THEN <<Invocation("add", ctx.table, decision.Value, exit),
                         Invocation("add", ctx.table, decision.Value, exit)>>
                  ELSE <<Invocation("add", ctx.table, decision.Value, exit)>>]

\* pfContext.Add that returns the failure of the invocation to its caller
pfContext_Add_Strict(ctx, decision, exit) ==
    IF ~ParseDuration(decision.Duration)
    THEN [ret |-> Error(<<"time: invalid duration">>, decision.Duration),
          inv |-> <<>>]
    ELSE [ret |-> IF exit # 0
                  THEN Error(<<"Error while adding to table (%s)">>, ctx.table)
                  ELSE NoErr,
          inv |-> <<Invocation("add", ctx.table, decision.Value, exit)>>]

pfContext_Add(ctx, decision, exit) ==
    IF ~ParseDuration(decision.Duration)
    THEN [ret |-> Error(<<"time: invalid duration">>, decision.Duration),
          inv |-> <<>>]
    ELSE [ret |-> NoErr,
          inv |-> <<Invocation("add", ctx.table, decision.Value, exit)>>]

\* pfContext.Delete that runs pfctl before it parses the duration
pfContext_Delete_ParseLate(ctx, decision, exit) ==
    [ret |-> IF ~ParseDuration(decision.Duration)
             THEN Error(<<"time: invalid duration">>, decision.Duration)
             ELSE NoErr,
     inv |-> <<Invocation("delete", ctx.table, decision.Value, exit)>>]

pfContext_Delete(ctx, decision, exit) ==
    IF ~ParseDuration(decision.Duration)
    THEN [ret |-> Error(<<"time: invalid duration">>, decision.Duration),
          inv |-> <<>>]
    ELSE [ret |-> NoErr,
          inv |-> <<Invocation("delete", ctx.table, decision.Value, exit)>>]

\* the flushes and table checks of Init; e[1..4]: exit statuses of the (up
\* to) four invocations, in order
initTables(p, out, e) ==
    LET f1 == shutDown(p.inet, e[1])
        c1 == checkTable(p.inet, e[2], out)
        f2 == shutDown(p.inet, e[3])
        c2 == checkTable(p.inet, e[4], out)
    IN  IF f1.ret.err
        THEN [ret |-> Error(<<"pf table flush failed: %s">> \o f1.ret.msg, f1.ret.arg),
              inv |-> f1.inv]
        ELSE IF c1.ret.err
        THEN [ret |-> Error(<<"pf init failed: %s">> \o c1.ret.msg, c1.ret.arg),
              inv |-> f1.inv \o c1.inv]
        ELSE IF p.inet6 = Nil
        THEN [ret |-> NoErr, inv |-> f1.inv \o c1.inv]
        ELSE IF f2.ret.err
        THEN [ret |-> Error(<<"pf shutdown failed: %s">> \o f2.ret.msg, f2.ret.arg),
              inv |-> f1.inv \o c1.inv \o f2.inv]
        ELSE IF c2.ret.err
        THEN [ret |-> Error(<<"pf init failed: %s">> \o c2.ret.msg, c2.ret.arg),
              inv |-> f1.inv \o c1.inv \o f2.inv \o c2.inv]
        ELSE [ret |-> NoErr, inv |-> f1.inv \o c1.inv \o f2.inv \o c2.inv]

\* pf_Init without the exec.LookPath pre-condition
pf_Init_NoLookPath(p, device, tool, out, e) ==
    IF ~device
    THEN [ret |-> Error(<<"%s device not found: %s">>, <<>>), inv |-> <<>>]
    ELSE initTables(p, out, e)

pf_Init(p, device, tool, out, e) ==
    IF ~device
    THEN [ret |-> Error(<<"%s device not found: %s">>, <<>>), inv |-> <<>>]
    ELSE IF ~tool
    THEN [ret |-> Error(<<"%s command not found: %s">>, <<>>), inv |-> <<>>]
    ELSE initTables(p, out, e)

\* pf_Add that sends every decision to the inet context
pf_Add_AlwaysInet(p, decision, exit) ==
    LET r == pfContext_Add(p.inet, decision, exit)
    IN  IF r.ret.err
        THEN [ret |-> Error(<<"failed adding ban ip '%s' to inet table">>,
                            decision.Value),
              inv |-> r.inv]
        ELSE [ret |-> NoErr, inv |-> r.inv]

pf_Add(p, decision, exit) ==
    IF Contains(decision.Value, <<":">>) /\ p.inet6 # Nil
    THEN IF p.inet6 # Nil
         THEN LET r == pfContext_Add(p.inet6, decision, exit)
              IN  IF r.ret.err
                  THEN [ret |-> Error(<<"failed to add ban ip '%s' to inet6 table">>,
                                      decision.Value),
                        inv |-> r.inv]
                  ELSE [ret |-> NoErr, inv |-> r.inv]
         ELSE [ret |-> NoErr, inv |-> <<>>]
    ELSE LET r == pfContext_Add(p.inet, decision, exit)
         IN  IF r.ret.err
             THEN [ret |-> Error(<<"failed adding ban ip '%s' to inet table">>,
                                 decision.Value),
                   inv |-> r.inv]
             ELSE [ret |-> NoErr, inv |-> r.inv]

\* pf_Delete that hands every decision to the inet6 context when there is one
pf_Delete_CopiedBranch(p, decision, exit) ==
    IF p.inet6 # Nil
    THEN LET r == pfContext_Delete(p.inet6, decision, exit)
         IN  IF r.ret.err
             THEN [ret |-> Error(<<"failed to remove ban ip '%s' from inet6 table">>,
                                 decision.Value),
                   inv |-> r.inv]
             ELSE [ret |-> NoErr, inv |-> r.inv]
    ELSE IF Contains(decision.Value, <<":">>)
    THEN [ret |-> NoErr, inv |-> <<>>]
    ELSE LET r == pfContext_Delete(p.inet, decision, exit)
         IN  IF r.ret.err
             THEN [ret |-> Error(<<"failed to remove ban ip '%s' from inet6 table">>,
                                 decision.Value),
                   inv |-> r.inv]
             ELSE [ret |-> NoErr, inv |-> r.inv]

pf_Delete(p, decision, exit) ==
    IF Contains(decision.Value, <<":">>)
    THEN IF p.inet6 # Nil
         THEN LET r == pfContext_Delete(p.inet6, decision, exit)
              IN  IF r.ret.err
                  THEN [ret |-> Error(<<"failed to remove ban ip '%s' from inet6 table">>,
                                      decision.Value),
                        inv |-> r.inv]
                  ELSE [ret |-> NoErr, inv |-> r.inv]
         ELSE [ret |-> NoErr, inv |-> <<>>]
    ELSE LET r == pfContext_Delete(p.inet, decision, exit)
         IN  IF r.ret.err
             THEN [ret |-> Error(<<"failed to remove ban ip '%s' from inet6 table">>,
                                 decision.Value),
                   inv |-> r.inv]
             ELSE [ret |-> NoErr, inv |-> r.inv]

\* pf_ShutDown that gives up when the flush of the inet table fails
pf_ShutDown_StopOnFailure(p, e) ==
    LET f1 == shutDown(p.inet, e[1])
        f2 == shutDown(p.inet6, e[2])
    IN  IF e[1] # 0
        THEN [ret |-> Error(<<"unable to flush inet table (%s): ">>, p.inet.table),
              inv |-> f1.inv]
        ELSE IF p.inet6 = Nil
        THEN [ret |-> NoErr, inv |-> f1.inv]
        ELSE [ret |-> NoErr, inv |-> f1.inv \o f2.inv]

\* e[1], e[2]: exit statuses of the flush of the inet and of the inet6 table
pf_ShutDown(p, e) ==
    LET f1 == shutDown(p.inet, e[1])
        f2 == shutDown(p.inet6, e[2])
    IN  IF f1.ret.err
        THEN [ret |-> Error(<<"unable to flush inet table (%s): ">>, p.inet.table),
              inv |-> f1.inv]
        ELSE IF p.inet6 = Nil
        THEN [ret |-> NoErr, inv |-> f1.inv]
        ELSE IF f2.ret.err
        THEN [ret |-> Error(<<"unable to flush inet table (%s): ">>, p.inet.table),
              inv |-> f1.inv \o f2.inv]
        ELSE [ret |-> NoErr, inv |-> f1.inv \o f2.inv]

---------------------------------------------------------------------------
\* State

VARIABLES
    config,         \* the bouncer configuration newPF was given
    pf,             \* the backend: its inet and inet6 contexts
    devicePresent,  \* /dev/pf exists
    toolPresent,    \* /sbin/pfctl is resolvable
    engineTables,   \* names of the tables that exist in the packet filter
    members,        \* the addresses held by the two crowdsec tables
    calls,          \* the lifecycle calls made so far, with their outcome
    invocations,    \* every pfctl invocation issued so far, in order
    stubs           \* what the nftables and iptables factories of this
                    \* platform returned for the configuration

vars == <<config, pf, devicePresent, toolPresent, engineTables, members,
          calls, invocations, stubs>>

env == <<config, pf, devicePresent, toolPresent, engineTables, stubs>>

\* contents the tables hold before the bouncer starts: entries left over
\* from an earlier run
PreExisting ==
    { [t \in {inetTable, inet6Table} |->
          IF t = inetTable THEN {Value4} ELSE {Value6}] }

Init ==
    /\ config \in [DisableIPV6 : BOOLEAN]
    /\ pf = newPF(config)
    /\ devicePresent \in BOOLEAN
    /\ toolPresent \in BOOLEAN
    /\ engineTables \in SUBSET {TablePool[i] : i \in 1..Len(TablePool)}
    /\ members \in PreExisting
    /\ calls = <<>>
    /\ invocations = <<>>
    /\ stubs = [nftables |-> NewNFTables(config), iptables |-> NewIPTables(config)]

\* the caller makes one call and the call runs to its return
Record(op, decision, r) ==
    /\ Len(calls) < MaxCalls
    /\ members' = pfctlAll(members, r.inv)
    /\ calls' = Append(calls, [op |-> op, decision |-> decision, ret |-> r.ret,
                               inv |-> r.inv, before |-> members,
                               after |-> pfctlAll(members, r.inv)])
    /\ invocations' = invocations \o r.inv
    /\ UNCHANGED env

CallInit ==
    \E e \in [1..4 -> ExitCodes] :
        Record("Init", NoDecision,
               pf_Init(pf, devicePresent, toolPresent,
                       TablesOutput(engineTables, 1), e))

CallAdd ==
    \E d \in Decisions, exit \in ExitCodes :
        Record("Add", d, pf_Add(pf, d, exit))

CallDelete ==
    \E d \in Decisions, exit \in ExitCodes :
        Record("Delete", d, pf_Delete(pf, d, exit))

CallShutDown ==
    \E e \in [1..2 -> ExitCodes] :
        Record("ShutDown", NoDecision, pf_ShutDown(pf, e))

Next == CallInit \/ CallAdd \/ CallDelete \/ CallShutDown

Spec == Init /\ [][Next]_vars

TypeOK ==
    /\ config \in [DisableIPV6 : BOOLEAN]
    /\ pf.inet # Nil
    /\ Len(calls) <= MaxCalls
    /\ \A i \in 1..Len(calls) : calls[i].op \in {"Init", "Add", "Delete", "ShutDown"}

---------------------------------------------------------------------------
\* Vocabulary of the properties

CallIdx == 1..Len(calls)

HasColon(v) == Contains(v, <<":">>)

Parses(d) == ParseDuration(d.Duration)

IsMutation(c) == c.op \in {"Add", "Delete"}

\* the command word of the invocation that Add / Delete issues
CmdOf(op) == IF op = "Add" THEN "add" ELSE "delete"

\* the output of the table-existence query on this host
Out == TablesOutput(engineTables, 1)

\* the invocations of call c that flush table t
Flushes(c, t) ==
    {k \in 1..Len(c.inv) : c.inv[k].cmd = "flush" /\ c.inv[k].table = t}

\* the invocations of call c that query the existing tables
Queries(c) == {k \in 1..Len(c.inv) : c.inv[k].cmd = "tables"}

---------------------------------------------------------------------------
\* C1: on a backend built with IPv6 disabled, every Add and every Delete of a
\* decision whose Value contains ':' returns success, issues no invocation
\* and leaves the tables as they were.
C1_DisabledFamilyIsNoOp ==
    \A i \in CallIdx :
        (IsMutation(calls[i]) /\ HasColon(calls[i].decision.Value)
            /\ pf.inet6 = Nil)
        => /\ ~calls[i].ret.err
           /\ calls[i].inv = <<>>
           /\ calls[i].after = calls[i].before

\* C2: on a backend built with IPv6 enabled, an Init that sees a table list
\* containing the IPv4 table name but not the IPv6 table name returns an
\* error, and an Init that returns success has seen the name of every enabled
\* family's table.
C2_Inet6TableChecked ==
    \A i \in CallIdx :
        (calls[i].op = "Init" /\ pf.inet6 # Nil)
        => /\ (Contains(Out, inetTable) /\ ~Contains(Out, inet6Table))
                  => calls[i].ret.err
           /\ ~calls[i].ret.err
                  => (Contains(Out, inetTable) /\ Contains(Out, inet6Table))

\* C3: an Init that reaches the table checks flushes the IPv4 table before
\* the first table query and, with IPv6 enabled, flushes the IPv6 table before
\* the query made for the IPv6 table (the second one); after an Init that
\* returns success and whose flushes all exited 0, every enabled table is
\* empty.
C3_FlushBeforeCheck ==
    \A i \in CallIdx :
        LET c == calls[i] IN
        (c.op = "Init" /\ c.inv # <<>>)
        => /\ \A q \in Queries(c) : \E f \in Flushes(c, inetTable) : f < q
           /\ pf.inet6 # Nil
                => \A q \in Queries(c) :
                      (\E q0 \in Queries(c) : q0 < q)
                      => \E f \in Flushes(c, inet6Table) : f < q
           /\ (~c.ret.err /\ \A k \in 1..Len(c.inv) : c.inv[k].exit = 0)
                => /\ c.after[inetTable] = {}
                   /\ pf.inet6 # Nil => c.after[inet6Table] = {}

\* C4: when /dev/pf does not exist or pfctl is not resolvable, Init returns an
\* error and has issued no invocation.
C4_PreconditionsBeforeTool ==
    \A i \in CallIdx :
        (calls[i].op = "Init" /\ (~devicePresent \/ ~toolPresent))
        => /\ calls[i].ret.err
           /\ calls[i].inv = <<>>
           /\ calls[i].after = calls[i].before

\* an Init was called on a host that has the device but not the tool
C4_Witness ==
    \E i \in CallIdx :
        /\ calls[i].op = "Init"
        /\ devicePresent /\ ~toolPresent
        /\ calls[i].ret.err

\* C5: when the device and the tool are there, an Init whose table query
\* exits non-zero, or prints a text that does not contain the IPv4 table name,
\* returns an error, with IPv6 enabled and with IPv6 disabled.
C5_MissingInetTableIsFatal ==
    \A i \in CallIdx :
        LET c == calls[i] IN
        (c.op = "Init" /\ devicePresent /\ toolPresent
            /\ (~Contains(Out, inetTable)
                  \/ \E q \in Queries(c) : c.inv[q].exit # 0))
        => c.ret.err

\* an Init on an IPv6-enabled backend whose query ran fine and listed only
\* the IPv6 table
C5_Witness ==
    \E i \in CallIdx :
        /\ calls[i].op = "Init"
        /\ devicePresent /\ toolPresent /\ pf.inet6 # Nil
        /\ engineTables = {inet6Table}
        /\ \E q \in Queries(calls[i]) : calls[i].inv[q].exit = 0
        /\ calls[i].ret.err

\* C6: an Add or Delete with a parseable Duration whose invocation exits
\* non-zero still returns success, and the calls that follow it are carried
\* out as usual: they return success and reach the packet filter (but for a
\* Delete that is the no-op of a disabled family).
C6_TolerantFailure ==
    \A i \in CallIdx :
        LET c == calls[i] IN
        (IsMutation(c) /\ Parses(c.decision)
            /\ \E k \in 1..Len(c.inv) : c.inv[k].exit # 0)
        => /\ ~c.ret.err
           /\ \A j \in CallIdx :
                 (j > i /\ IsMutation(calls[j]) /\ Parses(calls[j].decision))
                 => /\ ~calls[j].ret.err
                    /\ \/ Len(calls[j].inv) = 1
                       \/ /\ calls[j].op = "Delete"
                          /\ HasColon(calls[j].decision.Value)
                          /\ pf.inet6 = Nil

\* an Add whose pfctl run failed, followed by another decision that was
\* applied
C6_Witness ==
    \E i \in CallIdx, j \in CallIdx :
        /\ i < j
        /\ calls[i].op = "Add" /\ Parses(calls[i].decision)
        /\ Len(calls[i].inv) = 1 /\ calls[i].inv[1].exit # 0
        /\ IsMutation(calls[j]) /\ Parses(calls[j].decision)
        /\ Len(calls[j].inv) = 1 /\ calls[j].inv[1].exit = 0

\* C7: ShutDown issues exactly one flush of the IPv4 table, exactly one flush
\* of the IPv6 table iff the IPv6 context is present, and nothing else,
\* whatever the flushes exit with, and it returns success.
C7_ShutDownFlushesEachOnce ==
    \A i \in CallIdx :
        LET c == calls[i] IN
        c.op = "ShutDown"
        => /\ ~c.ret.err
           /\ Cardinality(Flushes(c, inetTable)) = 1
           /\ Cardinality(Flushes(c, inet6Table))
                 = (IF pf.inet6 # Nil THEN 1 ELSE 0)
           /\ Len(c.inv) = (IF pf.inet6 # Nil THEN 2 ELSE 1)

\* a ShutDown whose IPv4 flush failed and that went on to flush the IPv6 table
C7_Witness ==
    \E i \in CallIdx :
        /\ calls[i].op = "ShutDown"
        /\ pf.inet6 # Nil
        /\ Len(calls[i].inv) = 2
        /\ calls[i].inv[1].table = inetTable /\ calls[i].inv[1].exit # 0
        /\ calls[i].inv[2].table = inet6Table

\* C8: with IPv6 enabled, an Add or Delete of a decision whose Value contains
\* ':' and whose Duration parses issues exactly one invocation: add (delete)
\* of that Value in the IPv6 table.
C8_Inet6Routing ==
    \A i \in CallIdx :
        LET c == calls[i] IN
        (IsMutation(c) /\ pf.inet6 # Nil /\ HasColon(c.decision.Value)
            /\ Parses(c.decision))
        => /\ Len(c.inv) = 1
           /\ c.inv[1].cmd = CmdOf(c.op)
           /\ c.inv[1].table = inet6Table
           /\ c.inv[1].addr = c.decision.Value

\* an IPv6 address was added to the IPv6 table and then deleted from it
C8_Witness ==
    /\ pf.inet6 # Nil
    /\ Len(calls) = 2
    /\ calls[1].op = "Add" /\ calls[2].op = "Delete"
    /\ calls[1].decision.Value = Value6 /\ calls[2].decision.Value = Value6
    /\ Value6 \in calls[2].before[inet6Table]
    /\ Value6 \notin members[inet6Table]

\* C9: with or without the IPv6 context, an Add or Delete of a decision whose
\* Value contains no ':' and whose Duration parses issues exactly one
\* invocation: add (delete) of that Value in the IPv4 table.
C9_InetRouting ==
    \A i \in CallIdx :
        LET c == calls[i] IN
        (IsMutation(c) /\ ~HasColon(c.decision.Value) /\ Parses(c.decision))
        => /\ Len(c.inv) = 1
           /\ c.inv[1].cmd = CmdOf(c.op)
           /\ c.inv[1].table = inetTable
           /\ c.inv[1].addr = c.decision.Value

\* on an IPv6-enabled backend an IPv4 address was deleted from the IPv4 table
C9_Witness ==
    \E i \in CallIdx :
        /\ calls[i].op = "Delete"
        /\ pf.inet6 # Nil
        /\ calls[i].decision.Value = Value4
        /\ Value4 \in calls[i].before[inetTable]
        /\ Value4 \notin calls[i].after[inetTable]

\* C10: an Add or Delete of a decision whose family is enabled and whose
\* Duration does not parse returns an error, issues no invocation and leaves
\* the tables as they were; the decisions before and after it with a
\* parseable Duration return success.
C10_MalformedDuration ==
    \A i \in CallIdx :
        LET c == calls[i] IN
        (IsMutation(c) /\ ~Parses(c.decision)
            /\ (HasColon(c.decision.Value) => pf.inet6 # Nil))
        => /\ c.ret.err
           /\ c.inv = <<>>
           /\ c.after = c.before
           /\ \A j \in CallIdx :
                 (j # i /\ IsMutation(calls[j]) /\ Parses(calls[j].decision))
                 => ~calls[j].ret.err

\* a Delete with a malformed Duration was refused after an Add had been
\* applied
C10_Witness ==
    /\ Len(calls) = 2
    /\ calls[1].op = "Add" /\ Parses(calls[1].decision)
    /\ Len(calls[1].inv) = 1
    /\ calls[2].op = "Delete" /\ ~Parses(calls[2].decision)
    /\ HasColon(calls[2].decision.Value) /\ pf.inet6 # Nil
    /\ calls[2].ret.err


\* the add / delete runs among a sequence of invocations, as (command,
\* address) pairs
RECURSIVE Mutations(_)
Mutations(invs) ==
    IF invs = <<>> THEN <<>>
    ELSE (IF Head(invs).cmd \in {"add", "delete"}
          THEN <<[cmd |-> Head(invs).cmd, addr |-> Head(invs).addr]>>
          ELSE <<>>) \o Mutations(Tail(invs))

\* what the caller asked for, in the order it asked: one (command, address)
\* pair per Add / Delete that reached the packet filter
RECURSIVE Requested(_)
Requested(cs) ==
    IF cs = <<>> THEN <<>>
    ELSE (IF IsMutation(Head(cs)) /\ Head(cs).inv # <<>>
          THEN <<[cmd |-> CmdOf(Head(cs).op), addr |-> Head(cs).decision.Value]>>
          ELSE <<>>) \o Requested(Tail(cs))

\* C11: every Add / Delete issues at most one invocation, which has run (its
\* effect is in the tables) when the call returns, and the add / delete runs
\* the packet filter has seen are the caller's decisions in the caller's
\* order.
C11_CallOrder ==
    /\ \A i \in CallIdx :
          IsMutation(calls[i])
          => /\ Len(calls[i].inv) <= 1
             /\ calls[i].after = pfctlAll(calls[i].before, calls[i].inv)
    /\ Mutations(invocations) = Requested(calls)
    /\ Len(calls) > 0 => members = calls[Len(calls)].after

\* two different decisions reached the packet filter, the first one in a run
\* that failed
C11_Witness ==
    /\ Len(calls) = 2
    /\ calls[1].op = "Add" /\ calls[1].decision.Value = Value6
    /\ calls[2].op = "Delete" /\ calls[2].decision.Value = Value4
    /\ Len(calls[1].inv) = 1 /\ calls[1].inv[1].exit # 0
    /\ Len(invocations) = 2
    /\ invocations[1].cmd = "add" /\ invocations[2].cmd = "delete"


\* C12: the pf backend provides every method of the six-method Backend
\* contract, Commit among them, and no call it has served so far is a Commit
\* that returned an error, issued an invocation or changed the tables.
C12_CommitProvided ==
    /\ "Commit" \in pfMethods
    /\ \A m \in Backend : m \in pfMethods
    /\ \A i \in CallIdx :
          calls[i].op = "Commit"
          => /\ ~calls[i].ret.err
             /\ calls[i].inv = <<>>
             /\ calls[i].after = calls[i].before


\* C13: every add / delete ever issued against the IPv4 table carried a Value
\* without ':', and every one issued against the IPv6 table a Value with ':'.
C13_FamilyPurity ==
    \A k \in 1..Len(invocations) :
        invocations[k].cmd \in {"add", "delete"}
        => /\ invocations[k].table = inetTable
                 => ~HasColon(invocations[k].addr)
           /\ invocations[k].table = inet6Table
                 => HasColon(invocations[k].addr)

\* C14: on a backend built with IPv6 disabled no invocation names the IPv6
\* table, and an Init that passes its pre-conditions issues the flush of the
\* IPv4 table and one table query, nothing else.
C14_NoInet6WhenDisabled ==
    config.DisableIPV6
    => /\ \A k \in 1..Len(invocations) : invocations[k].table # inet6Table
       /\ \A i \in CallIdx :
             (calls[i].op = "Init" /\ devicePresent /\ toolPresent)
             => /\ Len(calls[i].inv) = 2
                /\ calls[i].inv[1].cmd = "flush"
                /\ calls[i].inv[1].table = inetTable
                /\ calls[i].inv[2].cmd = "tables"

\* with IPv6 disabled, an Init succeeded and a ShutDown followed
C14_Witness ==
    /\ config.DisableIPV6
    /\ Len(calls) = 2
    /\ calls[1].op = "Init" /\ ~calls[1].ret.err
    /\ calls[2].op = "ShutDown"
    /\ Len(invocations) = 3

\* the family an error text of Add / Delete names
FamilyNamed(msg) ==
    IF msg = <<"failed adding ban ip '%s' to inet table">> THEN "inet"
    ELSE IF msg = <<"failed to add ban ip '%s' to inet6 table">> THEN "inet6"
    ELSE IF msg = <<"failed to remove ban ip '%s' from inet6 table">> THEN "inet6"
    ELSE ""

\* C15: an error returned by Add or Delete carries the decision's Value and
\* names the table the decision was routed to: the inet table for a Value
\* without ':', the inet6 table for a Value with ':' on an IPv6-enabled
\* backend.
C15_ErrorContext ==
    \A i \in CallIdx :
        LET c == calls[i] IN
        (IsMutation(c) /\ c.ret.err)
        => /\ c.ret.arg = c.decision.Value
           /\ ~HasColon(c.decision.Value) => FamilyNamed(c.ret.msg) = "inet"
           /\ (HasColon(c.decision.Value) /\ pf.inet6 # Nil)
                 => FamilyNamed(c.ret.msg) = "inet6"


\* C16: when the pre-conditions pass, a flush that exits non-zero does not
\* end Init: the table query that follows it is still made, and Init returns
\* an error exactly when a table query failed or did not list the table,
\* whatever the flushes exited with.
C16_FlushNonFatal ==
    \A i \in CallIdx :
        LET c == calls[i] IN
        (c.op = "Init" /\ devicePresent /\ toolPresent)
        => /\ \A k \in 1..Len(c.inv) :
                 c.inv[k].cmd = "flush"
                 => (k < Len(c.inv) /\ c.inv[k + 1].cmd = "tables")
           /\ c.ret.err <=> \/ \E q \in Queries(c) : c.inv[q].exit # 0
                            \/ ~Contains(Out, inetTable)

\* an Init whose first flush failed and that returned success
C16_Witness ==
    \E i \in CallIdx :
        /\ calls[i].op = "Init"
        /\ Len(calls[i].inv) >= 2
        /\ calls[i].inv[1].cmd = "flush" /\ calls[i].inv[1].exit # 0
        /\ ~calls[i].ret.err

\* C17: the backend always has its inet context, on the IPv4 table; it has an
\* inet6 context, on the IPv6 table, iff DisableIPV6 is false; no call changes
\* either.
C17_ContextsFixed ==
    /\ pf.inet = [proto |-> "inet", table |-> inetTable]
    /\ pf.inet6 # Nil <=> ~config.DisableIPV6
    /\ pf.inet6 # Nil => pf.inet6 = [proto |-> "inet6", table |-> inet6Table]

\* an IPv6-disabled backend that has served an Add and a ShutDown
C17_Witness ==
    /\ config.DisableIPV6 /\ pf.inet6 = Nil
    /\ Len(calls) = 2
    /\ calls[1].op = "Add" /\ Len(calls[1].inv) = 1
    /\ calls[2].op = "ShutDown"

\* C18: on this platform the nftables and the iptables factory return a nil
\* backend and a nil error, whatever the configuration.
C18_StubsReturnNilNil ==
    /\ stubs.nftables.backend = NilBackend /\ ~stubs.nftables.err.err
    /\ stubs.iptables.backend = NilBackend /\ ~stubs.iptables.err.err

\* the factories were called with IPv6 enabled, and the pf backend went on
\* to serve a call
C18_Witness ==
    /\ ~config.DisableIPV6
    /\ stubs.nftables = [backend |-> NilBackend, err |-> NoErr]
    /\ stubs.iptables = [backend |-> NilBackend, err |-> NoErr]
    /\ Len(calls) > 0

====
